---- MODULE Spec2Model ----
(***************************************************************************)
(* Stock/ETF Data Viewer (src/app.py): a two-step Streamlit wizard.  Every *)
(* user event reruns the script top to bottom; st.session_state and the    *)
(* st.cache_data store survive between runs, widget state survives only    *)
(* while the widget keeps being rendered with the same identity.           *)
(*                                                                         *)
(* Numbers: closes are positive integers (price units), a missing value is *)
(* NaN.  A return is the exact rational num/den (percent), so the sign     *)
(* tests and the sums below are exact.                                     *)
(***************************************************************************)
EXTENDS Integers, Sequences, FiniteSets, TLC

VARIABLES
    step,      \* st.session_state.step
    ticker,    \* st.session_state.ticker (sequence of characters)
    start,     \* st.session_state.start
    end,       \* st.session_state.end
    df,        \* st.session_state.df: <<>> when the key is absent, else <<frame>>
    wTicker,   \* state of the "Ticker" text_input: <<>> or <<[id, val]>>
    wStart,    \* state of the "Start date" date_input
    wEnd,      \* state of the "End date" date_input
    wFreq,     \* state of the frequency radio: <<>> or <<choice>>
    cache,     \* st.cache_data store of load_prices: set of [key, val]
    pc,        \* position of the running script: "idle" or "fetch"
    view,      \* what the current/last run has rendered
    run,       \* history: the event that started the run, provider calls made in it
    hist       \* history: widget values of the last step-1 run, df provenance, inputs before Back

vars == <<step, ticker, start, end, df, wTicker, wStart, wEnd, wFreq, cache, pc, view, run, hist>>

-----------------------------------------------------------------------------
(* Bounds of the model *)

MaxRows == 3        \* rows of a fetched price frame
MaxClose == 2       \* closes range over 1..MaxClose
MaxCache == 1       \* entries the load_prices cache holds in the model

(* Dates of the form: ordinals MinDay..Today *)
MinDay == 1
DefaultStart == 2
Today == 3

FormDays == MinDay..Today
\* the dates the user picks in the model
StartChoices == {MinDay, DefaultStart}
EndChoices == {DefaultStart, Today}

-----------------------------------------------------------------------------
(* Small helpers *)

None == <<>>
Some(x) == <<x>>

Max(S) == CHOOSE x \in S : \A y \in S : y <= x
Min(S) == CHOOSE x \in S : \A y \in S : x <= y

RECURSIVE SortedSeq(_)
SortedSeq(S) == IF S = {} THEN <<>> ELSE <<Min(S)>> \o SortedSeq(S \ {Min(S)})

-----------------------------------------------------------------------------
(* Numbers of the dataframe engine *)

NaN == -1

NaNVal == [nan |-> TRUE, num |-> 0, den |-> 1]
Rat(n, d) == [nan |-> FALSE, num |-> n, den |-> d]

IsNaN(r) == r.nan
Sign(r) == IF r.num > 0 THEN 1 ELSE IF r.num < 0 THEN -1 ELSE 0
RatEq(a, b) == ~a.nan /\ ~b.nan /\ a.num * b.den = b.num * a.den
RatLess(a, b) == a.num * b.den < b.num * a.den
RatAdd(a, b) == Rat(a.num * b.den + b.num * a.den, a.den * b.den)

\* numpy round to 0 decimals of n/d (d > 0), half to even
RoundHalfEven(n, d) ==
    LET q == n \div d
        r == n - q * d
    IN  IF 2 * r < d THEN q
        ELSE IF 2 * r > d THEN q + 1
        ELSE IF q % 2 = 0 THEN q ELSE q + 1

\* .round(2) of a return, in hundredths of a percent
Round2(r) == RoundHalfEven(r.num * 100, r.den)

-----------------------------------------------------------------------------
(* Calendar of the price index: day ordinals of 2010, day 1 = Fri 2010-01-01 *)

DaysPerWeek == 7
FirstFriday == 1
MonthEnds == <<31, 59, 90, 120>>
TradingDays == {4, 8, 11, 15, 32, 67}

\* resample("W-FRI"): label of the bin (previous Friday, Friday] holding d
WeekEnd(d) == d + ((FirstFriday - d) % DaysPerWeek)
\* resample("M"): label of the calendar month holding d
MonthEnd(d) == MonthEnds[Min({m \in 1..Len(MonthEnds) : d <= MonthEnds[m]})]

PeriodEnd(freq, d) == IF freq = "Weekly" THEN WeekEnd(d) ELSE MonthEnd(d)

-----------------------------------------------------------------------------
(* Price frames: [hasClose, rows], rows date-ordered [date, close] *)

CloseValues == (1..MaxClose) \cup {NaN}

FrameOf(days, closes) ==
    [hasClose |-> TRUE,
     rows |-> [i \in 1..Len(days) |-> [date |-> days[i], close |-> closes[i]]]]

PriceFrames ==
    UNION { { FrameOf(SortedSeq(D), cs) : cs \in [1..Cardinality(D) -> CloseValues] } :
            D \in {X \in SUBSET TradingDays : Cardinality(X) \in 1..MaxRows} }

EmptyFrame == [hasClose |-> TRUE, rows |-> <<>>]
\* a non-empty frame that has no Close column
NoCloseFrame == [hasClose |-> FALSE, rows |-> <<[date |-> 4, close |-> NaN]>>]

IsEmpty(f) == Len(f.rows) = 0

Closes(f) == [i \in 1..Len(f.rows) |-> f.rows[i].close]

-----------------------------------------------------------------------------
(* Compute returns (app.py 112-128) *)

\* Series.ffill(): each missing value takes the last earlier value present
Ffill(s) ==
    [i \in 1..Len(s) |->
        LET have == {j \in 1..i : s[j] # NaN}
        IN  IF have = {} THEN NaN ELSE s[Max(have)]]

\* Series.pct_change() * 100 (pandas < 3: fill_method "pad")
PctChangeBadDenominator(s) ==
    LET f == Ffill(s)
    IN  [i \in 1..Len(s) |->
            IF i = 1 \/ f[i] = NaN \/ f[i - 1] = NaN THEN NaNVal
            ELSE Rat((f[i] - f[i - 1]) * 100, f[i])]

PctChange(s) ==
    LET f == Ffill(s)
    IN  [i \in 1..Len(s) |->
            IF i = 1 \/ f[i] = NaN \/ f[i - 1] = NaN THEN NaNVal
            ELSE Rat((f[i] - f[i - 1]) * 100, f[i - 1])]

\* Series.resample(rule).last(): one bin per period from the first date's to
\* the last date's, holding the last value present in the bin, else NaN
ResampleFirst(freq, f) ==
    LET n == Len(f.rows)
        labels == SortedSeq({PeriodEnd(freq, d) : d \in f.rows[1].date..f.rows[n].date})
        lastIn(e) ==
            LET have == {i \in 1..n : PeriodEnd(freq, f.rows[i].date) = e
                                       /\ f.rows[i].close # NaN}
            IN  IF have = {} THEN NaN ELSE f.rows[Min(have)].close
    IN  [hasClose |-> TRUE,
         rows |-> [k \in 1..Len(labels) |-> [date |-> labels[k], close |-> lastIn(labels[k])]]]

ResampleLast(freq, f) ==
    LET n == Len(f.rows)
        labels == SortedSeq({PeriodEnd(freq, d) : d \in f.rows[1].date..f.rows[n].date})
        lastIn(e) ==
            LET have == {i \in 1..n : PeriodEnd(freq, f.rows[i].date) = e
                                       /\ f.rows[i].close # NaN}
            IN  IF have = {} THEN NaN ELSE f.rows[Max(have)].close
    IN  [hasClose |-> TRUE,
         rows |-> [k \in 1..Len(labels) |-> [date |-> labels[k], close |-> lastIn(labels[k])]]]

\* out: Close and Return (%) columns, then dropna
WithReturns(f) ==
    LET r == PctChange(Closes(f))
        keep == SortedSeq({i \in 1..Len(f.rows) : f.rows[i].close # NaN /\ ~IsNaN(r[i])})
    IN  [k \in 1..Len(keep) |->
            [date |-> f.rows[keep[k]].date, close |-> f.rows[keep[k]].close, ret |-> r[keep[k]]]]

ComputeReturns(freq, f) ==
    IF freq = "Daily" THEN WithReturns(f) ELSE WithReturns(ResampleLast(freq, f))

-----------------------------------------------------------------------------
(* Display table (app.py 134-155) and summary stats (app.py 162-176) *)

\* out_display: Close and Return (%) rounded to 2 decimals (returns in hundredths)
Display(out) ==
    [k \in 1..Len(out) |->
        [date |-> out[k].date, close |-> out[k].close, ret |-> Round2(out[k].ret)]]

\* (boolean Series).mean() * 100 over n rows of which cnt are True
Rate(cnt, n) == IF n = 0 THEN NaNVal ELSE Rat(cnt * 100, n)

RECURSIVE SumRet(_, _)
SumRet(out, k) == IF k = 0 THEN Rat(0, 1) ELSE RatAdd(SumRet(out, k - 1), out[k].ret)

MeanRet(out) ==
    IF Len(out) = 0 THEN NaNVal
    ELSE LET t == SumRet(out, Len(out)) IN Rat(t.num, t.den * Len(out))

MinRet(out) ==
    IF Len(out) = 0 THEN NaNVal
    ELSE out[CHOOSE i \in 1..Len(out) :
                \A j \in 1..Len(out) : ~RatLess(out[j].ret, out[i].ret)].ret

MaxRet(out) ==
    IF Len(out) = 0 THEN NaNVal
    ELSE out[CHOOSE i \in 1..Len(out) :
                \A j \in 1..Len(out) : ~RatLess(out[i].ret, out[j].ret)].ret

\* the stats dict; "Std Dev (%)" is a square root and is left out of the record
Stats(out) ==
    LET n == Len(out)
        wins == Cardinality({i \in 1..n : Sign(out[i].ret) = 1})
        losses == Cardinality({i \in 1..n : Sign(out[i].ret) = -1})
        flats == Cardinality({i \in 1..n : Sign(out[i].ret) = 0})
    IN  [observations |-> n,
         mean |-> MeanRet(out), min |-> MinRet(out), max |-> MaxRet(out),
         win |-> Rate(wins, n), loss |-> Rate(losses, n), flat |-> Rate(flats, n)]

-----------------------------------------------------------------------------
(* Ticker text: sequences of characters *)

DefaultTicker == <<"S", "P", "Y">>
Whitespace == {" "}
UpperOf == [c \in {"a", "s", "p", "y"} |->
               IF c = "a" THEN "A" ELSE IF c = "s" THEN "S" ELSE IF c = "p" THEN "P" ELSE "Y"]

\* what the user may type into the ticker box
TypedTexts == { <<" ", "a", " ">>, <<"s", "p", "y">> }

\* str.strip()
Strip(s) ==
    LET ink == {i \in 1..Len(s) : s[i] \notin Whitespace}
    IN  IF ink = {} THEN <<>> ELSE SubSeq(s, Min(ink), Max(ink))

\* str.upper()
Upper(s) == [i \in 1..Len(s) |-> IF s[i] \in DOMAIN UpperOf THEN UpperOf[s[i]] ELSE s[i]]

StripOnly(s) == Strip(s)

\* st.text_input(...).strip().upper()
Normalize(s) == Upper(Strip(s))

-----------------------------------------------------------------------------
(* Widgets.  A widget without a key is identified by its label and its     *)
(* arguments, the default value among them: its state is used only while   *)
(* the identity stays the same, and is dropped by a run that does not      *)
(* render it.                                                              *)

\* value a widget call returns, given the stored state w and the default dflt
WidgetValue(w, dflt) == IF w # None /\ w[1].id = dflt THEN w[1].val ELSE dflt
WidgetState(w, dflt) == Some([id |-> dflt, val |-> WidgetValue(w, dflt)])

\* the user edits the widget that is on the page
Edited(w, v) == Some([id |-> w[1].id, val |-> v])

\* value= of the "End date" date_input
EndDefault(e) == Today

Freqs == {"Daily", "Weekly", "Monthly"}
\* st.radio: first option unless the widget has state
Radio(w) == IF w = None THEN "Daily" ELSE w[1]

-----------------------------------------------------------------------------
(* go_next / go_back *)

go_next_min1(s) == IF s + 1 < 1 THEN s + 1 ELSE 1

go_next(s) == IF s + 1 < 2 THEN s + 1 ELSE 2
go_back(s) == IF s - 1 > 1 THEN s - 1 ELSE 1

-----------------------------------------------------------------------------
(* What a run renders *)

BlankView ==
    [inputs |-> None, review |-> None, getData |-> FALSE, radio |-> None,
     heading |-> None, out |-> None, table |-> None, stats |-> None,
     warning |-> FALSE, exception |-> FALSE]

\* step 1: the three input widgets and the Review button
Step1View(raw, s, e) ==
    [BlankView EXCEPT !.inputs = Some([ticker |-> raw, start |-> s, end |-> e])]

\* step 2 down to the buttons: review panel, Back, Get Data
ReviewView(t, s, e) ==
    [BlankView EXCEPT !.review = Some(<<t, s, e>>), !.getData = TRUE]

StoredAfterInPlaceResample(f, freq) ==
    IF f.hasClose /\ freq # "Daily" THEN ResampleLast(freq, f) ELSE f

\* the stored frame after the run worked on df = st.session_state.df.copy()
StoredAfterCompute(f, freq) == f

\* step 2 from the "Only continue if we have data stored" test on
DataView(v, t, d, w) ==
    IF d = None \/ IsEmpty(d[1]) THEN v
    ELSE IF ~d[1].hasClose
         THEN [v EXCEPT !.radio = Some(Radio(w)), !.exception = TRUE]
         ELSE LET out == ComputeReturns(Radio(w), d[1])
              IN  [v EXCEPT !.radio = Some(Radio(w)),
                            !.heading = Some([freq |-> Radio(w), ticker |-> t]),
                            !.out = Some(out),
                            !.table = Some(Display(out)),
                            !.stats = Some(Stats(out))]

Step2View(t, s, e, d, w) == DataView(ReviewView(t, s, e), t, d, w)

\* the radio keeps its state only if the run rendered it
RadioAfter(v) == IF v.radio = None THEN None ELSE v.radio

DfAfter(d, v) ==
    IF d # None /\ v.out # None THEN Some(StoredAfterCompute(d[1], v.radio[1])) ELSE d

Key == <<ticker, start, end>>

-----------------------------------------------------------------------------
(* The provider (yf.download) and the load_prices cache *)

\* frames the provider returns in the interactive specification
SampleFrames == { FrameOf(<<4>>, <<1>>), FrameOf(<<4, 8, 11>>, <<1, 2, 2>>) }
ProviderFrames == {EmptyFrame, NoCloseFrame} \cup SampleFrames

OutcomeOf(f) == IF IsEmpty(f) THEN "empty" ELSE IF ~f.hasClose THEN "malformed" ELSE "ok"

Cached(k) == {c \in cache : c.key = k}

RetryAfterRaise == "fetch"

\* position after yf.download raised: no handler, no loop, the run is over
PcAfterRaise == "idle"

NewRun(ev) == [event |-> ev, calls |-> 0, args |-> None, result |-> None, outcome |-> "none"]

-----------------------------------------------------------------------------
(* Script runs *)

\* the step-1 branch, with the widget states wT, wS, wE the browser sent
Step1Run(wT, wS, wE, ev, sv) ==
    LET raw == WidgetValue(wT, ticker)
        s == WidgetValue(wS, start)
        e == WidgetValue(wE, EndDefault(end))
    IN  /\ ticker' = Normalize(raw)
        /\ start' = s
        /\ end' = e
        /\ wTicker' = WidgetState(wT, ticker)
        /\ wStart' = WidgetState(wS, start)
        /\ wEnd' = WidgetState(wE, EndDefault(end))
        /\ wFreq' = None
        /\ view' = Step1View(raw, s, e)
        /\ pc' = "idle"
        /\ run' = NewRun(ev)
        /\ hist' = [hist EXCEPT !.inputs = [ticker |-> raw, start |-> s, end |-> e],
                                !.saved = sv]
        /\ UNCHANGED <<df, cache>>

\* the step-2 branch from line 99 on, with session df d and radio state w
Step2Finish(d, w, r, h) ==
    LET v == Step2View(ticker, start, end, d, w)
    IN  /\ view' = v
        /\ df' = DfAfter(d, v)
        /\ wFreq' = RadioAfter(v)
        /\ wTicker' = None /\ wStart' = None /\ wEnd' = None
        /\ run' = r
        /\ hist' = h
        /\ UNCHANGED <<ticker, start, end>>

\* a run in which no step branch matches renders nothing
NoStepRun(ev) ==
    /\ view' = BlankView
    /\ wTicker' = None /\ wStart' = None /\ wEnd' = None /\ wFreq' = None
    /\ pc' = "idle"
    /\ run' = NewRun(ev)
    /\ hist' = [hist EXCEPT !.saved = None]
    /\ UNCHANGED <<ticker, start, end, df, cache>>

\* a whole run without a Get Data click, after the callbacks set step'
Script(ev, sv) ==
    IF step' = 1 THEN Step1Run(wTicker, wStart, wEnd, ev, sv)
    ELSE IF step' = 2
         THEN /\ Step2Finish(df, wFreq, NewRun(ev), [hist EXCEPT !.saved = sv])
              /\ pc' = "idle"
              /\ UNCHANGED cache
         ELSE NoStepRun(ev)

-----------------------------------------------------------------------------
(* State after the first run of a session *)

Init ==
    /\ step = 1
    /\ ticker = Normalize(DefaultTicker)
    /\ start = DefaultStart
    /\ end = Today
    /\ df = None
    /\ wTicker = Some([id |-> DefaultTicker, val |-> DefaultTicker])
    /\ wStart = Some([id |-> DefaultStart, val |-> DefaultStart])
    /\ wEnd = Some([id |-> Today, val |-> Today])
    /\ wFreq = None
    /\ cache = {}
    /\ pc = "idle"
    /\ view = Step1View(DefaultTicker, DefaultStart, Today)
    /\ run = NewRun("init")
    /\ hist = [inputs |-> [ticker |-> DefaultTicker, start |-> DefaultStart, end |-> Today],
               dfArgs |-> None, saved |-> None]

-----------------------------------------------------------------------------
(* User events; each reruns the script *)

TypeTicker(r) ==
    /\ step = 1 /\ pc = "idle" /\ wTicker # None
    /\ r # wTicker[1].val
    /\ step' = step
    /\ Step1Run(Edited(wTicker, r), wStart, wEnd, "edit", None)

PickStart(d) ==
    /\ step = 1 /\ pc = "idle" /\ wStart # None
    /\ d # wStart[1].val
    /\ step' = step
    /\ Step1Run(wTicker, Edited(wStart, d), wEnd, "edit", None)

PickEnd(d) ==
    /\ step = 1 /\ pc = "idle" /\ wEnd # None
    /\ d # wEnd[1].val
    /\ step' = step
    /\ Step1Run(wTicker, wStart, Edited(wEnd, d), "edit", None)

\* "Review" button: on_click=go_next, then the rerun
ClickReview ==
    /\ pc = "idle" /\ view.inputs # None
    /\ step' = go_next(step)
    /\ Script("review", hist.saved)

\* "Back" button: on_click=go_back, then the rerun
ClickBack ==
    /\ pc = "idle" /\ view.getData
    /\ step' = go_back(step)
    /\ Script("back", Some(Key))

\* the frequency radio
ChooseFrequency(f) ==
    /\ pc = "idle" /\ view.radio # None
    /\ f # view.radio[1]
    /\ step' = step
    /\ Step2Finish(df, Some(f), NewRun("freq"), [hist EXCEPT !.saved = None])
    /\ pc' = "idle"
    /\ UNCHANGED cache

\* "Get Data" button: the run renders the review panel and the buttons and
\* enters load_prices
ClickGetData ==
    /\ pc = "idle" /\ view.getData
    /\ Cached(Key) # {} \/ Cardinality(cache) < MaxCache
    /\ pc' = "fetch"
    /\ view' = ReviewView(ticker, start, end)
    /\ run' = NewRun("getdata")
    /\ hist' = [hist EXCEPT !.saved = None]
    /\ UNCHANGED <<step, ticker, start, end, df, wTicker, wStart, wEnd, wFreq, cache>>

\* load_prices returns f: session df is set, the script goes on to the tables
Loaded(f, called) ==
    /\ pc' = "idle"
    /\ Step2Finish(Some(f), wFreq,
                   [run EXCEPT !.calls = @ + called,
                               !.args = IF called = 1 THEN Some(Key) ELSE @,
                               !.result = Some(f), !.outcome = OutcomeOf(f)],
                   [hist EXCEPT !.dfArgs = Some(Key)])
    /\ UNCHANGED step

\* the arguments are in the cache: no provider call
LoadCached ==
    /\ pc = "fetch"
    /\ \E c \in Cached(Key) :
          /\ Loaded(c.val, 0)
          /\ UNCHANGED cache

\* cache miss: yf.download returns a frame, which is cached and returned
LoadFetched(f) ==
    /\ pc = "fetch" /\ Cached(Key) = {}
    /\ cache' = cache \cup {[key |-> Key, val |-> f]}
    /\ Loaded(f, 1)

\* cache miss: yf.download raises; nothing is cached or stored, the run ends
LoadRaised ==
    /\ pc = "fetch" /\ Cached(Key) = {}
    /\ pc' = PcAfterRaise
    /\ view' = [view EXCEPT !.exception = TRUE]
    /\ wFreq' = None
    /\ run' = [run EXCEPT !.calls = @ + 1, !.args = Some(Key), !.outcome = "raised"]
    /\ UNCHANGED <<step, ticker, start, end, df, wTicker, wStart, wEnd, cache, hist>>

\* the app menu's "Clear cache" command
ClearCache ==
    /\ pc = "idle" /\ cache # {}
    /\ cache' = {}
    /\ UNCHANGED <<step, ticker, start, end, df, wTicker, wStart, wEnd, wFreq, pc, view, run, hist>>

Next ==
    \/ \E r \in TypedTexts : TypeTicker(r)
    \/ \E d \in StartChoices : PickStart(d)
    \/ \E d \in EndChoices : PickEnd(d)
    \/ ClickReview
    \/ ClickBack
    \/ \E f \in Freqs : ChooseFrequency(f)
    \/ ClickGetData
    \/ LoadCached
    \/ \E f \in ProviderFrames : LoadFetched(f)
    \/ LoadRaised
    \/ ClearCache

Spec == Init /\ [][Next]_vars

-----------------------------------------------------------------------------
(* Return tables over every bounded price frame: the session right after   *)
(* Review and a Get Data that returned the frame, then frequency choices   *)

InitReturns ==
    /\ step = 2
    /\ ticker = Normalize(DefaultTicker)
    /\ start = DefaultStart
    /\ end = Today
    /\ \E f \in PriceFrames :
          /\ df = Some(f)
          /\ cache = {[key |-> <<Normalize(DefaultTicker), DefaultStart, Today>>, val |-> f]}
          /\ view = Step2View(Normalize(DefaultTicker), DefaultStart, Today, Some(f), None)
          /\ run = [event |-> "getdata", calls |-> 1,
                    args |-> Some(<<Normalize(DefaultTicker), DefaultStart, Today>>),
                    result |-> Some(f), outcome |-> "ok"]
    /\ wTicker = None /\ wStart = None /\ wEnd = None
    /\ wFreq = Some("Daily")
    /\ pc = "idle"
    /\ hist = [inputs |-> [ticker |-> DefaultTicker, start |-> DefaultStart, end |-> Today],
               dfArgs |-> Some(<<Normalize(DefaultTicker), DefaultStart, Today>>),
               saved |-> None]

NextReturns == \E f \in Freqs : ChooseFrequency(f)

SpecReturns == InitReturns /\ [][NextReturns]_vars

-----------------------------------------------------------------------------
(* Properties *)

TablesShown == df # None /\ view.out # None /\ view.radio # None
ShownFreq == view.radio[1]

NoMissing(f) == \A i \in 1..Len(f.rows) : f.rows[i].close # NaN

\* r is (c / p - 1) * 100, stated as p * (1 + r / 100) = c
IsPercentReturn(r, c, p) == ~r.nan /\ p * (100 * r.den + r.num) = 100 * r.den * c

\* C1: Daily, price series without missing values: the returns table has one
\* row per observation t except the first, carrying close[t] and
\* (close[t]/close[t-1] - 1) * 100; n closes give n - 1 rows.
C1_DailyReturns ==
    (TablesShown /\ ShownFreq = "Daily" /\ NoMissing(df[1])) =>
        LET rows == df[1].rows
            out == view.out[1]
        IN  /\ Len(out) = Len(rows) - 1
            /\ \A t \in 2..Len(rows) :
                  /\ out[t - 1].date = rows[t].date
                  /\ out[t - 1].close = rows[t].close
                  /\ IsPercentReturn(out[t - 1].ret, rows[t].close, rows[t - 1].close)

C1_Witness ==
    /\ TablesShown /\ ShownFreq = "Daily" /\ NoMissing(df[1])
    /\ run.event = "freq"
    /\ Len(df[1].rows) >= 3
    /\ Len(view.out[1]) = Len(df[1].rows) - 1
    /\ \E k \in 1..Len(view.out[1]) : view.out[1][k].ret.num < 0
    /\ \E k \in 1..Len(view.out[1]) : view.out[1][k].ret.num > 0

\* daily observations of the stored frame that carry a close
Observed == {i \in 1..Len(df[1].rows) : df[1].rows[i].close # NaN}
PeriodOf(i) == PeriodEnd(ShownFreq, df[1].rows[i].date)
ObservedPeriods == {PeriodOf(i) : i \in Observed}
\* close of the latest daily observation inside period p
PeriodClose(p) == df[1].rows[Max({i \in Observed : PeriodOf(i) = p})].close
PreviousPeriod(p) == Max({q \in ObservedPeriods : q < p})

\* C2: Weekly / Monthly: every output row is a period holding a daily
\* observation, its close is the close of the latest daily observation in the
\* period, its return is that period close against the previous period's
\* close, and periods without a daily observation give no row.
C2_PeriodReturns ==
    (TablesShown /\ ShownFreq \in {"Weekly", "Monthly"}) =>
        LET out == view.out[1]
        IN  /\ \A k \in 1..Len(out) :
                  /\ out[k].date \in ObservedPeriods
                  /\ out[k].date # Min(ObservedPeriods)
                  /\ out[k].close = PeriodClose(out[k].date)
                  /\ IsPercentReturn(out[k].ret, PeriodClose(out[k].date),
                                     PeriodClose(PreviousPeriod(out[k].date)))
            /\ \A k \in 1..(Len(out) - 1) : out[k].date < out[k + 1].date
            /\ \A p \in ObservedPeriods :
                  p # Min(ObservedPeriods) => \E k \in 1..Len(out) : out[k].date = p

\* a week with two observations of different closes, then empty weeks, then a row
C2_Witness ==
    /\ TablesShown /\ ShownFreq = "Weekly"
    /\ Len(view.out[1]) >= 1
    /\ \E i, j \in Observed :
          /\ i < j /\ PeriodOf(i) = PeriodOf(j)
          /\ df[1].rows[i].close # df[1].rows[j].close
    /\ \E k \in 1..Len(view.out[1]) :
          PreviousPeriod(view.out[1][k].date) + DaysPerWeek < view.out[1][k].date

\* C3: whenever the summary statistics are computed, Win Rate + Loss Rate +
\* Flat Rate = 100%, also when no return row is left.
C3_RatesSumTo100 ==
    view.stats # None =>
        LET s == view.stats[1]
        IN  /\ ~s.win.nan /\ ~s.loss.nan /\ ~s.flat.nan
            /\ RatEq(RatAdd(RatAdd(s.win, s.loss), s.flat), Rat(100, 1))


\* C4: a Get Data run whose fetch result is empty, malformed or a provider
\* failure ends with a warning on the page and without an unhandled exception.
C4_WarningOnBadFetch ==
    (pc = "idle" /\ run.event = "getdata"
        /\ run.outcome \in {"empty", "malformed", "raised"}) =>
        (view.warning /\ ~view.exception)

\* state part and step part of C5
C5_StepRendering ==
    /\ step \in {1, 2}
    /\ go_next(1) = 2 /\ go_next(2) = 2 /\ go_back(2) = 1 /\ go_back(1) = 1
    /\ view.inputs # None => step = 1
    /\ (view.review # None \/ view.getData \/ view.radio # None \/ view.heading # None
          \/ view.table # None \/ view.stats # None) => step = 2

C5_StepMoves ==
    /\ ClickReview => (step = 1 /\ step' = 2)
    /\ ClickBack => (step = 2 /\ step' = 1)
    /\ ~(ClickReview \/ ClickBack) => step' = step

\* C5: the step is always 1 or 2; Review moves 1 to 2, Back moves 2 to 1, the
\* clamps keep 2 and 1, no other event changes the step; inputs are rendered
\* only in step 1, the review panel, Get Data and the tables only in step 2.
C5_WizardSteps == [](C5_StepRendering) /\ [][C5_StepMoves]_vars

C5_Witness == step = 1 /\ run.event = "back" /\ view.inputs # None

\* state part and step part of C6
C6_FetchState ==
    /\ run.calls <= 1
    /\ run.calls > 0 => (run.event = "getdata" /\ step = 2)
    /\ pc = "fetch" =>
          (run.event = "getdata" /\ view.heading = None /\ view.table = None
              /\ view.stats = None)
    /\ (run.event = "getdata" /\ view.table # None) =>
          (pc = "idle" /\ run.result # None /\ df = run.result)

C6_FetchSteps ==
    run'.calls > run.calls => (pc = "fetch" /\ run.event = "getdata" /\ step = 2)

\* C6: the provider is called only inside a Get Data run of step 2, at most
\* once per click (no retry after an empty or failed result), and the result
\* is stored before any of that run's tables is rendered.
C6_SingleFetch == [](C6_FetchState) /\ [][C6_FetchSteps]_vars

C6_Witness ==
    pc = "idle" /\ run.event = "getdata" /\ run.calls = 1 /\ run.outcome = "empty"

\* t is raw without its surrounding whitespace, in upper case
NormalizedFrom(raw, t) ==
    \E i, j \in 0..Len(raw) :
        /\ i + j <= Len(raw)
        /\ Len(t) = Len(raw) - i - j
        /\ \A k \in 1..i : raw[k] \in Whitespace
        /\ \A k \in (Len(raw) - j + 1)..Len(raw) : raw[k] \in Whitespace
        /\ Len(t) > 0 => (raw[i + 1] \notin Whitespace /\ raw[Len(raw) - j] \notin Whitespace)
        /\ \A k \in 1..Len(t) :
              /\ t[k] \notin DOMAIN UpperOf
              /\ t[k] = (IF raw[i + k] \in DOMAIN UpperOf THEN UpperOf[raw[i + k]] ELSE raw[i + k])

\* state part and step part of C7
C7_InputsState ==
    /\ run.calls > 0 => run.args = Some(Key)
    /\ view.review # None => view.review = Some(Key)
    /\ NormalizedFrom(hist.inputs.ticker, ticker)
    /\ start = hist.inputs.start
    /\ end = hist.inputs.end

C7_Step2KeepsInputs ==
    (step = 2 /\ step' = 2) => (ticker' = ticker /\ start' = start /\ end' = end)

\* C7: every provider call uses the ticker, start and end of the review
\* panel; these are the widget values of the last step-1 run, the ticker
\* stripped and upper-cased; step 2 never changes them.
C7_FetchUsesReviewedInputs == [](C7_InputsState) /\ [][C7_Step2KeepsInputs]_vars

C7_Witness ==
    /\ step = 2 /\ run.calls = 1 /\ run.args = Some(Key)
    /\ hist.inputs.ticker = <<" ", "a", " ">>
    /\ start # DefaultStart /\ end # Today

\* C8: whenever tables are shown in step 2, the shown prices are the fetch
\* result for the ticker and date range of the review panel and heading.
C8_TablesMatchReview ==
    (step = 2 /\ view.table # None) =>
        (view.review = Some(Key) /\ view.heading[1].ticker = ticker /\ hist.dfArgs = Some(Key))

\* C9: from step 2, Back and then Review without touching a widget leaves
\* ticker, start and end as they were before Back.
C9_BackReviewRoundTrip ==
    (step = 2 /\ run.event = "review" /\ hist.saved # None) => hist.saved = Some(Key)

\* state part and step part of C10
C10_TablesFromStored ==
    view.out # None =>
        /\ df # None /\ view.radio # None
        /\ view.out[1] = ComputeReturns(view.radio[1], df[1])
        /\ view.table = Some(Display(view.out[1]))
        /\ view.stats = Some(Stats(view.out[1]))

C10_FrequencySteps ==
    /\ (\E f \in Freqs : ChooseFrequency(f)) =>
          /\ df' = df /\ ticker' = ticker /\ start' = start /\ end' = end
          /\ step' = step /\ cache' = cache
          /\ run'.calls = 0
    /\ df' # df => (pc = "fetch" /\ run'.event = "getdata")

\* C10: a frequency choice changes only the derived tables: stored prices,
\* ticker, start, end, step and cache are unchanged and no provider call is
\* made; the table is a function of the stored prices and the frequency; the
\* stored prices change only in the Get Data run.
C10_FrequencyFrame == [](C10_TablesFromStored) /\ [][C10_FrequencySteps]_vars

\* switched away from Daily and back
C10_Witness ==
    /\ run.event = "freq" /\ view.radio = Some("Daily") /\ view.table # None
    /\ Len(view.out[1]) >= 1

====
